---- MODULE Spec2Model ----
(***************************************************************************)
(* Model of the notification subsystem of js/notifications.js:             *)
(* NotificationManager (registry, eviction, queue drain loop) and          *)
(* Notification (lifecycle, promise, timer), ToastManager and Toast; and   *)
(* of ModalComponent of js/framework.js.                                   *)
(*                                                                         *)
(* One action is one callback turn of the event loop (an API call, a DOM   *)
(* event, a timeout) or one promise reaction (microtask).  Promise         *)
(* reactions run before any further callback turn, so every turn is        *)
(* guarded by an empty microtask queue.                                    *)
(***************************************************************************)
EXTENDS Integers, Sequences, FiniteSets, TLC

\* ---------------------------------------------------------------- bounds
\* instances constructed in a run of Spec
MaxIds == 2
\* instances constructed in a run of SpecQueue
MaxQueueIds == 3
\* instances constructed in a run of SpecBurst
MaxBurst == 7
\* requests appended to the pending sequence in a run
MaxQueue == 3
\* preConfirm / preDeny results of one instance that are unsettled at a time
MaxDeferred == 1
\* destroy() calls made on one instance through a reference the caller holds
MaxDestroyCalls == 2
\* instances constructed in a run of SpecPermissions
MaxPermissionIds == 3
\* toasts constructed in a run of SpecToastBurst
MaxToastBurst == 7
\* toasts constructed in a run of SpecToast
MaxToastIds == 2
\* close() calls made on one toast by clicks on its close button
MaxToastClicks == 2
\* modal ids in use
MaxModals == 2
\* close timeouts of one modal that are pending at a time
MaxModalTimers == 2

\* ------------------------------------------------------ program constants
\* NotificationManager.constructor: this.maxNotifications = 5
maxNotifications == 5
\* ToastManager.constructor: this.maxToasts = 5
maxToasts == 5

ModalIds == 1 .. MaxModals

\* a modal id for which no ModalComponent was created yet
NoModal == [created |-> FALSE, isOpen |-> FALSE, display |-> "none",
            closeTimers |-> 0, lastCall |-> "none"]

VARIABLES
  notifications,  \* manager.notifications: the Map's keys in insertion order
  inst,           \* every Notification constructed so far, by id 1..Len(inst)
  queue,          \* manager.queue: the pending option bags
  isProcessing,   \* manager.isProcessing
  jobs,           \* promise reactions ready to run (microtask queue)
  thrown,         \* exception that escaped the latest callback turn
  returned,       \* value the latest API call returned to its caller
  container,      \* manager.container: "attached" to the document or "detached"
  toasts,         \* toastManager.toasts: the Map's keys in insertion order
  toast,          \* every Toast constructed so far, by id 1..Len(toast)
  modals          \* framework.modals: the ModalComponent of each modal id

vars ==
  <<notifications, inst, queue, isProcessing, jobs, thrown, returned,
    container, toasts, toast, modals>>

\* The program state as one value, so that a handler is a function on it.
\* A callback turn starts with no exception in flight and nothing returned.
St ==
  [notifications |-> notifications, inst |-> inst, queue |-> queue,
   isProcessing |-> isProcessing, jobs |-> jobs, thrown |-> "none",
   returned |-> "none", container |-> container,
   toasts |-> toasts, toast |-> toast, modals |-> modals]

Become(s) ==
  /\ notifications' = s.notifications
  /\ inst' = s.inst
  /\ queue' = s.queue
  /\ isProcessing' = s.isProcessing
  /\ jobs' = s.jobs
  /\ thrown' = s.thrown
  /\ returned' = s.returned
  /\ container' = s.container
  /\ toasts' = s.toasts
  /\ toast' = s.toast
  /\ modals' = s.modals

\* an exception is in flight: the rest of the enclosing calls is skipped
Raised(s) == s.thrown # "none"

\* ------------------------------------------------------------ option bags
\* NotificationManager.defaultOptions (the fields the lifecycle reads).
\* timer: 0 stands for null (both are falsy in `if (this.options.timer)`).
\* text, html: "" stands for the falsy defaults ('' and null).
\* Hooks: "null" (absent) or "throws" (a function that throws); a hook that
\* returns normally changes nothing the lifecycle reads, like an absent one.
defaultOptions ==
  [title |-> "", text |-> "", type |-> "info", timer |-> 0,
   showConfirmButton |-> TRUE, showCancelButton |-> FALSE,
   allowOutsideClick |-> TRUE, allowEscapeKey |-> TRUE,
   showCloseButton |-> TRUE, animation |-> TRUE,
   preConfirm |-> "null", preDeny |-> "null",
   willOpen |-> "null", didOpen |-> "null", willClose |-> "null",
   didClose |-> "null", didDestroy |-> "null", html |-> ""]

\* { ...this.defaultOptions, ...options }
MergeOptions(base, over) ==
  [k \in DOMAIN base |-> IF k \in DOMAIN over THEN over[k] ELSE base[k]]

\* Option bags a caller passes.  preConfirm / preDeny: "null" (absent),
\* "value" (returns a plain value), "promise" (returns a Promise).
ReqPlain == [title |-> "D"]
ReqTimer == [title |-> "D", timer |-> 100]
ReqNoAnimation == [title |-> "D", animation |-> FALSE]
ReqQuestion == [title |-> "D", showCancelButton |-> TRUE]
ReqLoading ==
  [title |-> "D", showConfirmButton |-> FALSE,
   allowOutsideClick |-> FALSE, allowEscapeKey |-> FALSE]
ReqPreValue ==
  [title |-> "D", showCancelButton |-> TRUE,
   preConfirm |-> "value", preDeny |-> "value"]
ReqPreDeny ==
  [title |-> "D", showConfirmButton |-> FALSE, showCancelButton |-> TRUE,
   preDeny |-> "promise"]
ReqPreConfirm == [title |-> "D", preConfirm |-> "promise"]

ReqNoEscape == [title |-> "D", allowEscapeKey |-> FALSE]
ReqNoOutside == [title |-> "D", allowOutsideClick |-> FALSE]

\* requests whose lifecycle hook throws
ReqWillOpen == [title |-> "D", willOpen |-> "throws"]
ReqDidOpen == [title |-> "D", timer |-> 100, didOpen |-> "throws"]
ReqWillClose == [title |-> "D", timer |-> 100, willClose |-> "throws"]
ReqDidClose == [title |-> "D", didClose |-> "throws"]
ReqDidDestroy == [title |-> "D", animation |-> FALSE, didDestroy |-> "throws"]
\* a request with markup content: html takes the place of text
ReqHtml == [title |-> "D", text |-> "T", html |-> "<i>H</i>"]

\* --------------------------------------------------------------- helpers
Range(q) == {q[i] : i \in DOMAIN q}

\* Map.prototype.delete(key) on the insertion-ordered key list
MapDelete(keys, id) == SelectSeq(keys, LAMBDA k : k # id)

\* new Promise(...): nothing settled, no reaction attached.
\* keys: the own properties of the outcome object it was resolved with;
\* value: the outcome's `value` property, or the rejection's error.
PendingPromise ==
  [state |-> "pending", keys |-> {}, value |-> "undefined", thenDrain |-> FALSE]

\* Notification.constructor, before create() and open()
NewNotification(options) ==
  [options |-> options, isOpen |-> FALSE, isClosing |-> FALSE,
   timer |-> FALSE, promise |-> PendingPromise,
   destroyTimers |-> 0, destroyed |-> 0,
   pendingConfirm |-> 0, pendingDeny |-> 0,
   destroyCalls |-> 0, renderedText |-> "", connected |-> FALSE]

\* this.resolve(outcome): settles a pending promise, and schedules the
\* reaction processQueue attached with .then, if there is one.
resolve(s, n, keys, value) ==
  IF s.inst[n].promise.state # "pending" THEN s
  ELSE [s EXCEPT
          !.inst[n].promise.state = "fulfilled",
          !.inst[n].promise.keys = keys,
          !.inst[n].promise.value = value,
          !.jobs = IF s.inst[n].promise.thenDrain THEN Append(@, n) ELSE @]

\* this.reject(error): settles a pending promise; .then(onFulfilled) gives
\* the rejection no reaction.
reject(s, n, error) ==
  IF s.inst[n].promise.state # "pending" THEN s
  ELSE [s EXCEPT
          !.inst[n].promise.state = "rejected",
          !.inst[n].promise.value = error]

\* promise.then(onFulfilled) in processQueue
thenDrain(s, n) ==
  [s EXCEPT
     !.inst[n].promise.thenDrain = TRUE,
     !.jobs = IF s.inst[n].promise.state = "fulfilled" THEN Append(@, n) ELSE @]

\* ------------------------------------------------------ class Notification
startTimer(s, n) == [s EXCEPT !.inst[n].timer = TRUE]

clearTimer(s, n) ==
  IF s.inst[n].timer THEN [s EXCEPT !.inst[n].timer = FALSE] ELSE s

\* `if (this.options.<hook>) this.options.<hook>(...)`: no try/catch around it
callHook(s, n, hook) ==
  IF s.inst[n].options[hook] = "throws"
  THEN [s EXCEPT !.thrown = "HookError"]
  ELSE s

\* what the text reads as once the markup is parsed (element.textContent)
TextContent(markup) ==
  CASE markup = "<b>X</b>" -> "X"
    [] OTHER -> markup

\* buildContent sets element.innerHTML: the html option, when truthy, takes
\* the place of the .notification-text element; "" is no text element.
buildContent(s, n) ==
  [s EXCEPT !.inst[n].renderedText =
     IF s.inst[n].options.html # "" THEN ""
     ELSE TextContent(s.inst[n].options.text)]

\* this.manager.container.appendChild(this.element): the element is in the
\* document when the container is
appendChild(s, n) ==
  [s EXCEPT !.inst[n].connected = (s.container = "attached")]

create(s, n) == appendChild(buildContent(s, n), n)

open(s, n) ==
  IF s.inst[n].isOpen THEN s
  ELSE LET h == callHook(s, n, "willOpen")
           s1 == [h EXCEPT !.inst[n].isOpen = TRUE]
           s2 == IF s1.inst[n].options.timer # 0 THEN startTimer(s1, n) ELSE s1
       IN  IF Raised(h) THEN h ELSE callHook(s2, n, "didOpen")

\* destroyCalls: calls of destroy(); destroyed: calls that removed the
\* element and deleted the registry entry
destroy(s, n) ==
  LET h == callHook([s EXCEPT !.inst[n].destroyCalls = @ + 1], n, "didClose")
      s1 == [h EXCEPT
               !.inst[n].destroyed = @ + 1,
               !.notifications = MapDelete(@, n)]
  IN  IF Raised(h) THEN h ELSE callHook(s1, n, "didDestroy")

closeGuardNoClosingCheck(s, n) == ~s.inst[n].isOpen

\* `if (this.isClosing || !this.isOpen) return;`
closeGuard(s, n) == s.inst[n].isClosing \/ ~s.inst[n].isOpen

close(s, n) ==
  IF closeGuard(s, n) THEN s
  ELSE LET h == callHook([s EXCEPT !.inst[n].isClosing = TRUE], n, "willClose")
           s2 == clearTimer(h, n)
       IN  IF Raised(h) THEN h
           ELSE IF s2.inst[n].options.animation
           THEN [s2 EXCEPT !.inst[n].destroyTimers = @ + 1]
           ELSE destroy(s2, n)

preConfirmFulfilledNoClose(s, n, value) ==
  resolve(s, n, {"isConfirmed", "value"}, value)

\* the callbacks of result.then(...).catch(...): an exception thrown by the
\* .then callback is handed to the .catch callback, this.reject(error)
thenCatch(s, n) ==
  IF Raised(s) THEN reject([s EXCEPT !.thrown = "none"], n, s.thrown) ELSE s

\* the .then callback of result.then(...).catch(...) in confirm()
preConfirmFulfilled(s, n, value) ==
  thenCatch(close(resolve(s, n, {"isConfirmed", "value"}, value), n), n)

\* the .catch callback of result.then(...).catch(...) in confirm()
preConfirmRejected(s, n, error) == reject(s, n, error)

confirm(s, n) ==
  IF s.inst[n].options.preConfirm # "null"
  THEN IF s.inst[n].options.preConfirm = "promise"
       THEN [s EXCEPT !.inst[n].pendingConfirm = @ + 1]
       ELSE close(resolve(s, n, {"isConfirmed", "value"}, "v"), n)
  ELSE close(resolve(s, n, {"isConfirmed"}, "undefined"), n)

\* the .then callback of result.then(...).catch(...) in deny()
preDenyFulfilled(s, n, value) ==
  thenCatch(close(resolve(s, n, {"isDenied", "value"}, value), n), n)

\* the .catch callback of result.then(...).catch(...) in deny()
preDenyRejected(s, n, error) == reject(s, n, error)

deny(s, n) ==
  IF s.inst[n].options.preDeny # "null"
  THEN IF s.inst[n].options.preDeny = "promise"
       THEN [s EXCEPT !.inst[n].pendingDeny = @ + 1]
       ELSE close(resolve(s, n, {"isDenied", "value"}, "v"), n)
  ELSE close(resolve(s, n, {"isDenied"}, "undefined"), n)

\* Notification.update(options): Object.assign(this.options, options), then
\* buildContent(); n = 0 is undefined, whose property access throws
Notification_update(s, n, options) ==
  IF n = 0 THEN [s EXCEPT !.thrown = "TypeError"]
  ELSE buildContent([s EXCEPT !.inst[n].options = MergeOptions(@, options)], n)

getFirstNotification(s) ==
  IF s.notifications = <<>> THEN 0 ELSE Head(s.notifications)

\* ------------------------------------------------ class NotificationManager
\* Array.from(this.notifications.values())[length - 1]; 0 stands for undefined
getTopNotification(s) ==
  IF s.notifications = <<>> THEN 0 ELSE s.notifications[Len(s.notifications)]

\* this.notifications.values().next().value
oldestNotification(s) == Head(s.notifications)

fireEnqueue(s, options) == [s EXCEPT !.queue = Append(@, options)]

fire(s, options) ==
  LET id == Len(s.inst) + 1
      s1 == [s EXCEPT !.inst = Append(@, NewNotification(MergeOptions(defaultOptions, options)))]
      s2 == open(create(s1, id), id)
      s3 == [s2 EXCEPT !.notifications = Append(@, id)]
  IN  IF Raised(s2) THEN s2
      ELSE IF Len(s3.notifications) > maxNotifications
      THEN close(s3, oldestNotification(s3))
      ELSE s3

\* Map.prototype.forEach visits the entries in insertion order and skips an
\* entry deleted before its turn.
RECURSIVE forEachClose(_, _)
forEachClose(s, ids) ==
  IF ids = <<>> \/ Raised(s) THEN s
  ELSE forEachClose(
         IF Head(ids) \in Range(s.notifications) THEN close(s, Head(ids)) ELSE s,
         Tail(ids))

closeAll(s) == forEachClose(s, s.notifications)

allowAlways(options) == TRUE

\* topNotification.options.allowEscapeKey
allowEscapeKey(options) == options.allowEscapeKey

\* topNotification.options.allowOutsideClick
allowOutsideClick(options) == options.allowOutsideClick

\* the keydown listener of bindGlobalEvents, for e.key === 'Escape'
onKeydownEscape(s) ==
  LET topNotification == getTopNotification(s)
  IN  IF topNotification # 0 /\ allowEscapeKey(s.inst[topNotification].options)
      THEN close(s, topNotification)
      ELSE s

\* the click listener of bindGlobalEvents, for a .notification-backdrop target
onBackdropClick(s) ==
  LET topNotification == getTopNotification(s)
  IN  IF topNotification # 0 /\ allowOutsideClick(s.inst[topNotification].options)
      THEN close(s, topNotification)
      ELSE s

\* { ...a, ...b }: the properties of a, then those of b over them
ObjectSpread(a, b) ==
  [k \in DOMAIN a \cup DOMAIN b |-> IF k \in DOMAIN b THEN b[k] ELSE a[k]]

success(s, title, text, options) ==
  fire(s, ObjectSpread([title |-> title, text |-> text, type |-> "success"], options))

error(s, title, text, options) ==
  fire(s, ObjectSpread([title |-> title, text |-> text, type |-> "error"], options))

warning(s, title, text, options) ==
  fire(s, ObjectSpread([title |-> title, text |-> text, type |-> "warning"], options))

info(s, title, text, options) ==
  fire(s, ObjectSpread([title |-> title, text |-> text, type |-> "info"], options))

question(s, title, text, options) ==
  fire(s, ObjectSpread([title |-> title, text |-> text, type |-> "question",
                        showCancelButton |-> TRUE], options))

loading(s, title, text, options) ==
  fire(s, ObjectSpread([title |-> title, text |-> text, type |-> "loading",
                        showConfirmButton |-> FALSE,
                        allowOutsideClick |-> FALSE,
                        allowEscapeKey |-> FALSE], options))

\* this.notifications.get(id): the instance, or undefined (0)
mapGet(s, id) == IF id \in Range(s.notifications) THEN id ELSE 0

getNotification(s, id) ==
  [s EXCEPT !.returned =
     IF mapGet(s, id) = 0 THEN "undefined" ELSE "instance"]

updateGuardAlways(notification) == TRUE

\* if (notification)
updateGuard(notification) == notification # 0

update(s, id, options) ==
  LET notification == mapGet(s, id)
  IN  IF updateGuard(notification)
      THEN Notification_update(s, notification, options)
      ELSE s

processQueueGuardNoFlag(s) == s.queue = <<>>

\* `if (this.isProcessing || this.queue.length === 0) return;`
processQueueGuard(s) == s.isProcessing \/ s.queue = <<>>

arrayPop(q) == [value |-> q[Len(q)], rest |-> SubSeq(q, 1, Len(q) - 1)]

\* Array.prototype.shift: removes the first element and returns it
arrayShift(q) == [value |-> Head(q), rest |-> Tail(q)]

processQueue(s) ==
  IF processQueueGuard(s) THEN s
  ELSE LET sh == arrayShift(s.queue)
           s1 == [s EXCEPT !.isProcessing = TRUE, !.queue = sh.rest]
           s2 == fire(s1, sh.value)
       IN  IF Raised(s2) THEN s2 ELSE thenDrain(s2, Len(s2.inst))

drainContinuationNoRestart(s) == [s EXCEPT !.isProcessing = FALSE]

\* the continuation processQueue attaches: () => { isProcessing = false; processQueue() }
drainContinuation(s) == processQueue([s EXCEPT !.isProcessing = FALSE])

\* ---------------------------------------------------------------- class Toast
toastDefaults == [duration |-> 3000, showCloseButton |-> TRUE]

\* hidden: the element carries toast-hide; destroyTimers: pending timeouts
\* of close(); destroyed: destroy() calls that ran
NewToast(options) ==
  [options |-> MergeOptions(toastDefaults, options), timer |-> FALSE,
   hidden |-> FALSE, destroyTimers |-> 0, destroyed |-> 0]

toastTimerGuardAlways(duration) == TRUE

\* if (this.options.duration > 0)
toastTimerGuard(duration) == duration > 0

Toast_show(s, n) ==
  IF toastTimerGuard(s.toast[n].options.duration)
  THEN [s EXCEPT !.toast[n].timer = TRUE]
  ELSE s

\* no guard: every call arms one more destroy timeout
Toast_close(s, n) ==
  [s EXCEPT !.toast[n].hidden = TRUE,
            !.toast[n].timer = FALSE,
            !.toast[n].destroyTimers = @ + 1]

Toast_destroy(s, n) ==
  [s EXCEPT !.toast[n].destroyed = @ + 1,
            !.toasts = MapDelete(@, n)]

\* --------------------------------------------------------- class ToastManager
\* this.toasts.values().next().value
oldestToast(s) == Head(s.toasts)

ToastManager_show(s, options) ==
  LET id == Len(s.toast) + 1
      s1 == Toast_show([s EXCEPT !.toast = Append(@, NewToast(options))], id)
      s2 == [s1 EXCEPT !.toasts = Append(@, id)]
  IN  IF Len(s2.toasts) > maxToasts
      THEN Toast_close(s2, oldestToast(s2))
      ELSE s2

RECURSIVE forEachToastClose(_, _)
forEachToastClose(s, ids) ==
  IF ids = <<>> THEN s
  ELSE forEachToastClose(
         IF Head(ids) \in Range(s.toasts) THEN Toast_close(s, Head(ids)) ELSE s,
         Tail(ids))

ToastManager_closeAll(s) == forEachToastClose(s, s.toasts)

\* ------------------------------------------- class ModalComponent (framework)
\* new ModalComponent(null, id, options), with #modal-container in the page
framework_createModal(s, m) ==
  [s EXCEPT !.modals[m].created = TRUE]

ModalComponent_open(s, m) ==
  [s EXCEPT !.modals[m].display = "flex", !.modals[m].isOpen = TRUE]

\* if (!this.modal || !this.isOpen) return; else arm the 300ms timeout
ModalComponent_close(s, m) ==
  IF ~s.modals[m].isOpen THEN s
  ELSE [s EXCEPT !.modals[m].closeTimers = @ + 1]

\* the timeout of close(): display = 'none'; isOpen = false
ModalComponent_closeTimeout(s, m) ==
  [s EXCEPT !.modals[m].display = "none", !.modals[m].isOpen = FALSE]

openModal(s, m) ==
  ModalComponent_open(
    IF s.modals[m].created THEN s ELSE framework_createModal(s, m), m)

closeModal(s, m) ==
  IF s.modals[m].created THEN ModalComponent_close(s, m) ELSE s

\* ------------------------------------------------------ property lookup
\* Own properties the constructor assigns on the manager (all data values)
ManagerOwnProperties ==
  {"notifications", "container", "queue", "isProcessing",
   "maxNotifications", "defaultOptions"}

\* Methods of NotificationManager.prototype
ManagerPrototypeMethods ==
  {"init", "createContainer", "bindGlobalEvents", "getTopNotification",
   "fire", "success", "error", "warning", "info", "question", "loading",
   "toast", "closeAll", "getNotification", "update", "queue", "processQueue"}

\* What `notificationManager.<name>` evaluates to: an own property shadows
\* the prototype's property of the same name.
ManagerGet(name) ==
  IF name \in ManagerOwnProperties THEN "data"
  ELSE IF name \in ManagerPrototypeMethods THEN "method"
  ELSE "undefined"

\* body of NotificationManager.prototype.queue
queueMethod(s, options) == processQueue([s EXCEPT !.queue = Append(@, options)])

\* AYdocsNotifications.queue: (options) => notificationManager.queue(options).
\* Calling a value that is not a function throws a TypeError.
queueCall(s, options) ==
  IF ManagerGet("queue") = "method"
  THEN queueMethod(s, options)
  ELSE [s EXCEPT !.thrown = "TypeError"]

\* ---------------------------------------------------------------- actions
Ids == 1 .. Len(inst)

\* the notification's element is in the document: appended to the
\* container, not removed by destroy(), and the container still attached
InDom(n) ==
  inst[n].destroyed = 0 /\ inst[n].connected /\ container = "attached"

\* instances admitted by processQueue, in admission order
Admitted ==
  SelectSeq([i \in 1 .. Len(inst) |-> i], LAMBDA i : inst[i].promise.thenDrain)

QueueTitles == <<"A", "B", "C", "E", "F", "G", "H", "I">>

\* a callback turn: the handler's result is the next state
Turn(s) == Become(s)

Idle == jobs = <<>>

\* AYdocsNotifications.fire(options)
Fire(r, cap) ==
  /\ Idle
  /\ Len(inst) + Len(queue) < cap
  /\ Turn(fire(St, r))

\* click on a .notification-button-confirm (handleAction('confirm'))
ClickConfirm(n) ==
  /\ Idle
  /\ InDom(n)
  /\ inst[n].options.showConfirmButton
  /\ inst[n].options.preConfirm = "promise" => inst[n].pendingConfirm < MaxDeferred
  /\ Turn(confirm(St, n))

\* click on a .notification-button-cancel (handleAction('deny'))
ClickDeny(n) ==
  /\ Idle
  /\ InDom(n)
  /\ inst[n].options.showCancelButton
  /\ inst[n].options.preDeny = "promise" => inst[n].pendingDeny < MaxDeferred
  /\ Turn(deny(St, n))

\* click on the .notification-close button
ClickClose(n) ==
  /\ Idle
  /\ InDom(n)
  /\ inst[n].options.showCloseButton
  /\ Turn(close(St, n))

\* notification.close() called on a reference the caller holds
CallClose(n) ==
  /\ Idle
  /\ Turn(close(St, n))

\* keydown listener, e.key === 'Escape'
EscapeKey ==
  /\ Idle
  /\ Turn(onKeydownEscape(St))

\* click listener, target is a .notification-backdrop element
BackdropClick ==
  /\ Idle
  /\ \E n \in Ids : InDom(n)
  /\ Turn(onBackdropClick(St))

\* the timeout startTimer armed expires
TimerExpiry(n) ==
  /\ Idle
  /\ inst[n].timer
  /\ Turn(close(St, n))

\* the timeout close() armed expires: () => this.destroy()
DestroyTimeout(n) ==
  /\ Idle
  /\ inst[n].destroyTimers > 0
  /\ Turn(destroy([St EXCEPT !.inst[n].destroyTimers = @ - 1], n))

\* notification.open() called on a reference the caller holds
CallOpen(n) ==
  /\ Idle
  /\ Turn(open(St, n))

\* notification.destroy() called on a reference the caller holds
CallDestroy(n) ==
  /\ Idle
  /\ inst[n].destroyCalls < MaxDestroyCalls
  /\ Turn(destroy(St, n))

\* AYdocsNotifications.update(id, options); id 0 is an id never issued
Update(id, options) ==
  /\ Idle
  /\ Turn(update(St, id, options))

\* AYdocsNotifications.manager.getNotification(id)
GetNotification(id) ==
  /\ Idle
  /\ Turn(getNotification(St, id))

\* AYdocsNotifications.success / error / warning / info / question / loading
Wrappers == {"success", "error", "warning", "info", "question", "loading"}

Preset(w, options, cap) ==
  /\ Idle
  /\ Len(inst) < cap
  /\ Turn(CASE w = "success" -> success(St, "D", "T", options)
            [] w = "error" -> error(St, "D", "T", options)
            [] w = "warning" -> warning(St, "D", "T", options)
            [] w = "info" -> info(St, "D", "T", options)
            [] w = "question" -> question(St, "D", "T", options)
            [] w = "loading" -> loading(St, "D", "T", options))

\* the page removes the .notification-container element from the document
\* (it stays referenced by manager.container)
DetachContainer ==
  /\ Idle
  /\ container = "attached"
  /\ Turn([St EXCEPT !.container = "detached"])

\* AYdocsNotifications.closeAll()
CloseAll ==
  /\ Idle
  /\ notifications # <<>>
  /\ Turn(closeAll(St))

\* the Promise preConfirm returned is fulfilled
PreConfirmFulfil(n) ==
  /\ Idle
  /\ inst[n].pendingConfirm > 0
  /\ Turn(preConfirmFulfilled([St EXCEPT !.inst[n].pendingConfirm = @ - 1], n, "w"))

\* the Promise preConfirm returned is rejected
PreConfirmReject(n) ==
  /\ Idle
  /\ inst[n].pendingConfirm > 0
  /\ Turn(preConfirmRejected([St EXCEPT !.inst[n].pendingConfirm = @ - 1], n, "e"))

\* the Promise preDeny returned is fulfilled
PreDenyFulfil(n) ==
  /\ Idle
  /\ inst[n].pendingDeny > 0
  /\ Turn(preDenyFulfilled([St EXCEPT !.inst[n].pendingDeny = @ - 1], n, "w"))

\* the Promise preDeny returned is rejected
PreDenyReject(n) ==
  /\ Idle
  /\ inst[n].pendingDeny > 0
  /\ Turn(preDenyRejected([St EXCEPT !.inst[n].pendingDeny = @ - 1], n, "e"))

\* AYdocsNotifications.manager.queue.push(options): the pending sequence is
\* a public array of the exported manager
QueuePush(r, cap) ==
  /\ Idle
  /\ Len(Admitted) + Len(queue) < MaxQueue
  /\ Len(inst) + Len(queue) < cap
  /\ Turn([St EXCEPT !.queue =
            Append(@, MergeOptions(r, [title |-> QueueTitles[Len(Admitted) + Len(queue) + 1]]))])

\* AYdocsNotifications.manager.processQueue()
ProcessQueue ==
  /\ Idle
  /\ queue # <<>>
  /\ Turn(processQueue(St))

\* AYdocsNotifications.queue(options)
Queue(r) ==
  /\ Idle
  /\ Become(queueCall(St, r))

\* the reaction of fire(options).then(...) in processQueue runs
RunDrain ==
  /\ jobs # <<>>
  /\ Become(drainContinuation([St EXCEPT !.jobs = Tail(@)]))

\* ------------------------------------------------------------ toast actions
ToastIds == 1 .. Len(toast)

\* AYdocsNotifications.toastManager.show(message, type, options)
ToastShow(options, cap) ==
  /\ Idle
  /\ Len(toast) < cap
  /\ Turn(ToastManager_show(St, options))

\* the timeout Toast.show armed expires
ToastTimerExpiry(n) ==
  /\ Idle
  /\ toast[n].timer
  /\ Turn(Toast_close([St EXCEPT !.toast[n].timer = FALSE], n))

\* click on the .toast-close button of a toast still in the document
ToastClickClose(n) ==
  /\ Idle
  /\ toast[n].destroyed = 0
  /\ toast[n].options.showCloseButton
  /\ toast[n].destroyTimers < MaxToastClicks
  /\ Turn(Toast_close(St, n))

\* the timeout Toast.close armed expires: () => this.destroy()
ToastDestroyTimeout(n) ==
  /\ Idle
  /\ toast[n].destroyTimers > 0
  /\ Turn(Toast_destroy([St EXCEPT !.toast[n].destroyTimers = @ - 1], n))

\* AYdocsNotifications.toastCloseAll()
ToastCloseAll ==
  /\ Idle
  /\ \E n \in Range(toasts) : toast[n].destroyTimers < MaxToastClicks
  /\ \A n \in Range(toasts) : toast[n].destroyTimers <= MaxToastClicks
  /\ Turn(ToastManager_closeAll(St))

\* ------------------------------------------------------------ modal actions
\* AYdocsFramework.openModal(modalId); lastCall records the latest request
OpenModal(m) ==
  /\ Idle
  /\ Turn([openModal(St, m) EXCEPT !.modals[m].lastCall = "open"])

\* AYdocsFramework.closeModal(modalId)
CloseModal(m) ==
  /\ Idle
  /\ modals[m].closeTimers < MaxModalTimers
  /\ Turn([closeModal(St, m) EXCEPT !.modals[m].lastCall = "close"])

\* a 300ms timeout armed by ModalComponent.close expires
ModalCloseTimeout(m) ==
  /\ Idle
  /\ modals[m].closeTimers > 0
  /\ Turn(ModalComponent_closeTimeout(
            [St EXCEPT !.modals[m].closeTimers = @ - 1], m))

\* ---------------------------------------------------------- specifications
Init ==
  /\ notifications = <<>>
  /\ inst = <<>>
  /\ queue = <<>>
  /\ isProcessing = FALSE
  /\ jobs = <<>>
  /\ thrown = "none"
  /\ returned = "none"
  /\ container = "attached"
  /\ toasts = <<>>
  /\ toast = <<>>
  /\ modals = [m \in ModalIds |-> NoModal]

\* Spec: the lifecycle of a few instances under requests whose handlers
\* return at once
Requests == {ReqPlain, ReqTimer, ReqNoAnimation, ReqQuestion, ReqLoading,
             ReqPreValue}

Next ==
  \/ \E r \in Requests : Fire(r, MaxIds)
  \/ \E n \in Ids : ClickConfirm(n)
  \/ \E n \in Ids : ClickDeny(n)
  \/ \E n \in Ids : ClickClose(n)
  \/ \E n \in Ids : CallClose(n)
  \/ EscapeKey
  \/ BackdropClick
  \/ \E n \in Ids : TimerExpiry(n)
  \/ \E n \in Ids : DestroyTimeout(n)
  \/ CloseAll

Spec == Init /\ [][Next]_vars

\* SpecDeferred: requests whose preConfirm / preDeny return a Promise
DeferredRequests == {ReqPlain, ReqPreConfirm, ReqPreDeny}

NextDeferred ==
  \/ \E r \in DeferredRequests : Fire(r, MaxIds)
  \/ \E n \in Ids : ClickConfirm(n)
  \/ \E n \in Ids : ClickDeny(n)
  \/ \E n \in Ids : ClickClose(n)
  \/ \E n \in Ids : CallClose(n)
  \/ EscapeKey
  \/ \E n \in Ids : DestroyTimeout(n)
  \/ CloseAll
  \/ \E n \in Ids : PreConfirmFulfil(n)
  \/ \E n \in Ids : PreConfirmReject(n)
  \/ \E n \in Ids : PreDenyFulfil(n)
  \/ \E n \in Ids : PreDenyReject(n)

SpecDeferred == Init /\ [][NextDeferred]_vars

\* SpecQueue: the drain loop, with direct fire calls interleaved
QueueRequests == {ReqTimer, ReqPreConfirm}

DirectRequests == {ReqPlain}

NextQueue ==
  \/ \E r \in DirectRequests : Fire(r, MaxQueueIds)
  \/ \E r \in QueueRequests : QueuePush(r, MaxQueueIds)
  \/ ProcessQueue
  \/ \E r \in QueueRequests : Queue(r)
  \/ RunDrain
  \/ \E n \in Ids : ClickConfirm(n)
  \/ \E n \in Ids : ClickClose(n)
  \/ EscapeKey
  \/ BackdropClick
  \/ CloseAll
  \/ \E n \in Ids : TimerExpiry(n)
  \/ \E n \in Ids : DestroyTimeout(n)
  \/ \E n \in Ids : PreConfirmFulfil(n)
  \/ \E n \in Ids : PreConfirmReject(n)

SpecQueue == Init /\ [][NextQueue]_vars

\* SpecBurst: more fire calls than the registry's bound
BurstRequests == {ReqPlain, ReqNoAnimation}

NextBurst ==
  \/ \E r \in BurstRequests : Fire(r, MaxBurst)
  \/ \E n \in Ids : ClickClose(n)
  \/ \E n \in Ids : DestroyTimeout(n)

SpecBurst == Init /\ [][NextBurst]_vars

\* Requests with and without throwing lifecycle hooks.
HookRequests ==
  {ReqPlain, ReqTimer, ReqNoAnimation,
   ReqWillOpen, ReqDidOpen, ReqWillClose, ReqDidClose, ReqDidDestroy}

NextHooks ==
  \/ \E r \in HookRequests : Fire(r, MaxIds)
  \/ \E n \in Ids : ClickConfirm(n)
  \/ \E n \in Ids : ClickClose(n)
  \/ EscapeKey
  \/ \E n \in Ids : TimerExpiry(n)
  \/ \E n \in Ids : DestroyTimeout(n)
  \/ CloseAll

SpecHooks == Init /\ [][NextHooks]_vars

\* Every method of an instance called in any order by a holder of it.
MethodRequests == {ReqTimer, ReqNoAnimation, ReqQuestion}

UpdateText == [text |-> "X"]

NextMethods ==
  \/ \E r \in MethodRequests : Fire(r, MaxIds)
  \/ \E n \in Ids : CallOpen(n)
  \/ \E n \in Ids : CallClose(n)
  \/ \E n \in Ids : ClickConfirm(n)
  \/ \E n \in Ids : ClickDeny(n)
  \/ \E n \in Ids : Update(n, UpdateText)
  \/ \E n \in Ids : TimerExpiry(n)
  \/ \E n \in Ids : DestroyTimeout(n)
  \/ \E n \in Ids : CallDestroy(n)

SpecMethods == Init /\ [][NextMethods]_vars

\* update and lookup by identifier; identifier 0 was never issued.
UpdateRequests == {ReqPlain, ReqTimer, ReqHtml}

UpdateOptions == {UpdateText, [text |-> "<b>X</b>"]}

LookupIds == 0 .. MaxIds

NextUpdate ==
  \/ \E r \in UpdateRequests : Fire(r, MaxIds)
  \/ \E id \in LookupIds, o \in UpdateOptions : Update(id, o)
  \/ \E id \in LookupIds : GetNotification(id)
  \/ \E n \in Ids : ClickClose(n)
  \/ \E n \in Ids : TimerExpiry(n)
  \/ \E n \in Ids : DestroyTimeout(n)

SpecUpdate == Init /\ [][NextUpdate]_vars

\* The convenience wrappers with and without an options argument; the
\* first entry is the default argument {}.
WrapperOptions ==
  << <<>>,
     [type |-> "error"],
     [showCancelButton |-> FALSE],
     [showConfirmButton |-> TRUE, allowEscapeKey |-> TRUE] >>

NextWrappers ==
  \/ \E w \in Wrappers, i \in DOMAIN WrapperOptions :
       Preset(w, WrapperOptions[i], MaxIds)
  \/ \E n \in Ids : ClickConfirm(n)
  \/ \E n \in Ids : ClickDeny(n)
  \/ \E n \in Ids : ClickClose(n)
  \/ EscapeKey
  \/ BackdropClick
  \/ \E n \in Ids : DestroyTimeout(n)

SpecWrappers == Init /\ [][NextWrappers]_vars

\* Instances of mixed Escape / outside-click permissions.
PermissionRequests == {ReqPlain, ReqLoading, ReqNoEscape, ReqNoOutside}

NextPermissions ==
  \/ \E r \in PermissionRequests : Fire(r, MaxPermissionIds)
  \/ EscapeKey
  \/ BackdropClick
  \/ \E n \in Ids : ClickClose(n)
  \/ \E n \in Ids : DestroyTimeout(n)

SpecPermissions == Init /\ [][NextPermissions]_vars

\* A burst of toasts under the default duration, with their timers.
NextToastBurst ==
  \/ ToastShow([duration |-> 3000], MaxToastBurst)
  \/ \E n \in ToastIds : ToastTimerExpiry(n)
  \/ \E n \in ToastIds : ToastDestroyTimeout(n)

SpecToastBurst == Init /\ [][NextToastBurst]_vars

\* Toasts with and without a duration; the browser runs every armed
\* timeout, so the two timeout actions are weakly fair.
ToastRequests == {[duration |-> 3000], [duration |-> 0]}

NextToast ==
  \/ \E o \in ToastRequests : ToastShow(o, MaxToastIds)
  \/ \E n \in ToastIds : ToastTimerExpiry(n)
  \/ \E n \in ToastIds : ToastClickClose(n)
  \/ \E n \in ToastIds : ToastDestroyTimeout(n)
  \/ ToastCloseAll

SpecToast ==
  /\ Init
  /\ [][NextToast]_vars
  /\ \A n \in 1 .. MaxToastIds :
       /\ WF_vars(n \in ToastIds /\ ToastTimerExpiry(n))
       /\ WF_vars(n \in ToastIds /\ ToastDestroyTimeout(n))

\* fire calls before and after the container left the document.
ContainerRequests == {ReqPlain, ReqTimer}

NextContainer ==
  \/ \E r \in ContainerRequests : Fire(r, MaxIds)
  \/ DetachContainer
  \/ \E n \in Ids : ClickConfirm(n)
  \/ \E n \in Ids : ClickClose(n)
  \/ EscapeKey
  \/ \E n \in Ids : TimerExpiry(n)
  \/ \E n \in Ids : DestroyTimeout(n)
  \/ CloseAll

SpecContainer == Init /\ [][NextContainer]_vars

\* Modals opened and closed through the framework, with their timeouts.
NextModal ==
  \/ \E m \in ModalIds : OpenModal(m)
  \/ \E m \in ModalIds : CloseModal(m)
  \/ \E m \in ModalIds : ModalCloseTimeout(m)

SpecModal == Init /\ [][NextModal]_vars

\* ------------------------------------------------------------ vocabulary
\* the lifecycle state "open": opened and not yet driven into closing
IsOpenState(i) == i.isOpen /\ ~i.isClosing

\* registry entries in the open state, oldest first
OpenEntries == SelectSeq(notifications, LAMBDA k : IsOpenState(inst[k]))

\* a step that constructs and admits one instance (fire, on either path)
Admits == Len(inst') = Len(inst) + 1

\* what a consumer reads from the outcome: an absent flag is undefined (falsy)
Flag(p, name) == p.state = "fulfilled" /\ name \in p.keys

Titles(q) == [i \in 1 .. Len(q) |-> q[i].title]

AdmittedTitles == [i \in 1 .. Len(Admitted) |-> inst[Admitted[i]].options.title]

\* queue-admitted instances whose continuation has not run: the promise is
\* not fulfilled, or its reaction is still in the microtask queue
InFlight ==
  {n \in Range(Admitted) :
     inst[n].promise.state # "fulfilled" \/ n \in Range(jobs)}

\* ----------------------------------------------------------------- claims

\* C1: the notifications map never holds more than maxNotifications entries,
\* whatever fire calls, timers, close and destroy events have happened.
C1_RegistryBounded == Len(notifications) <= maxNotifications

\* C2: a fire call that makes the registry exceed maxNotifications drives the
\* earliest-inserted instance that is still open into closing, never the one
\* it has just inserted, and leaves at most maxNotifications instances open.
C2_EvictsOldestOpen ==
  [][(Admits /\ Len(notifications) >= maxNotifications /\ OpenEntries # <<>>)
       => /\ inst'[Head(OpenEntries)].isClosing
          /\ IsOpenState(inst'[Len(inst')])
          /\ Len(OpenEntries') <= maxNotifications]_vars

\* C3: every instance that has entered closing has a settled promise,
\* whichever trigger closed it.
C3_SettledOnClosing ==
  \A n \in Ids : inst[n].isClosing => inst[n].promise.state # "pending"

\* C4: the outcome matches the trigger: a confirm action yields the confirmed
\* flag alone, a deny action the denied flag alone, and a close by timer
\* expiry, close button, explicit close, Escape or backdrop click resolves the
\* promise with both flags false.
C4_OutcomeMatchesTrigger ==
  [][\A n \in Ids :
       (IsOpenState(inst[n]) /\ inst[n].promise.state = "pending") =>
         /\ (ClickConfirm(n) /\ inst[n].options.preConfirm # "promise")
              => /\ Flag(inst'[n].promise, "isConfirmed")
                 /\ ~Flag(inst'[n].promise, "isDenied")
         /\ (ClickDeny(n) /\ inst[n].options.preDeny # "promise")
              => /\ Flag(inst'[n].promise, "isDenied")
                 /\ ~Flag(inst'[n].promise, "isConfirmed")
         /\ (\/ TimerExpiry(n) \/ ClickClose(n) \/ CallClose(n)
             \/ (EscapeKey /\ inst'[n].isClosing)
             \/ (BackdropClick /\ inst'[n].isClosing))
              => /\ inst'[n].promise.state = "fulfilled"
                 /\ ~Flag(inst'[n].promise, "isConfirmed")
                 /\ ~Flag(inst'[n].promise, "isDenied")]_vars

\* C5: a call of the public enqueue entry point on an idle queue admits the
\* request into the registry within that call, and throws nothing.
C5_EnqueueAdmits ==
  [][\A r \in QueueRequests :
       (Queue(r) /\ ~isProcessing /\ queue = <<>>)
         => (Admits /\ thrown' = "none")]_vars

\* C6: the drain loop fires the pending requests in the order they were
\* appended, and fires a request only after the promise of every request it
\* fired before has settled.
C6_FifoSerial ==
  /\ AdmittedTitles \o Titles(queue)
       = SubSeq(QueueTitles, 1, Len(Admitted) + Len(queue))
  /\ \A i \in 1 .. Len(Admitted) - 1 :
       inst[Admitted[i]].promise.state # "pending"

\* A, B and C have all been fired by the drain loop
C6_Witness ==
  /\ Len(Admitted) = 3
  /\ inst[Admitted[3]].options.title = "C"
  /\ inst[Admitted[2]].options.timer # 0

\* C7: once the promise of the queue-admitted instance is rejected and the
\* promise reactions have run, the drain loop is no longer processing it
\* (it is idle, or has admitted the next request).
C7_RejectionDoesNotHalt ==
  (/\ jobs = <<>>
   /\ Admitted # <<>>
   /\ inst[Admitted[Len(Admitted)]].promise.state = "rejected")
    => ~isProcessing

\* C8: at most one instance admitted through the queue path is open.
C8_OneQueuedOpen ==
  Cardinality({n \in Range(Admitted) : IsOpenState(inst[n])}) <= 1

\* a second queue-admitted instance is open beside an open direct one
C8_Witness ==
  /\ Len(Admitted) >= 2
  /\ IsOpenState(inst[Admitted[2]])
  /\ \E n \in Ids : ~inst[n].promise.thenDrain /\ IsOpenState(inst[n])

C10_DeferredConfirm ==
  [][\A n \in Ids :
       /\ (ClickConfirm(n) /\ inst[n].options.preConfirm = "promise")
            => /\ inst'[n] = [inst[n] EXCEPT !.pendingConfirm = @ + 1]
               /\ notifications' = notifications
       /\ PreConfirmFulfil(n)
            => /\ inst'[n].isClosing
               /\ inst[n].promise.state = "pending"
                    => /\ Flag(inst'[n].promise, "isConfirmed")
                       /\ inst'[n].promise.value = "w"
       /\ (PreConfirmReject(n) /\ inst[n].promise.state = "pending")
            => /\ inst'[n].promise.state = "rejected"
               /\ inst'[n].promise.value = "e"
               /\ inst'[n].isClosing = inst[n].isClosing
               /\ inst'[n].destroyTimers = inst[n].destroyTimers
               /\ notifications' = notifications]_vars

\* a rejected preConfirm left the instance open with its promise rejected
C10_Witness ==
  \E n \in Ids :
    /\ inst[n].options.preConfirm = "promise"
    /\ inst[n].promise.state = "rejected"
    /\ IsOpenState(inst[n])

\* C11: a lifecycle hook that throws does not stop the transition: no
\* exception reaches the caller, every fired instance is open and stays
\* registered until destroyed, an instance in closing has its timer cancelled
\* and its destruction under way, and a destroy() call removes the instance.
C11_HookThrowContained ==
  /\ thrown # "HookError"
  /\ \A n \in Ids :
       /\ inst[n].isOpen
       /\ inst[n].destroyed = 0 => n \in Range(notifications)
       /\ inst[n].isClosing =>
            /\ ~inst[n].timer
            /\ inst[n].destroyTimers > 0 \/ inst[n].destroyCalls > 0
       /\ inst[n].destroyCalls > 0 =>
            inst[n].destroyed > 0 /\ n \notin Range(notifications)

\* C12: every instance that entered closing reaches destroyed: while it is
\* in closing its destruction is scheduled or has run, and a destroy() call
\* leaves it destroyed and out of the registry.
C12_ClosingReachesDestroyed ==
  \A n \in Ids :
    /\ inst[n].isClosing =>
         inst[n].destroyTimers > 0 \/ inst[n].destroyed > 0
    /\ inst[n].destroyed > 0 => n \notin Range(notifications)

\* C14: once an instance is closing its auto-close timer is not armed, so
\* the timer's expiry never finds the instance already closing.
C14_NoTimerOnceClosing ==
  \A n \in Ids : inst[n].isClosing => ~inst[n].timer

\* C17: when closeAll() returns, every instance that was open when it was
\* called is closing or destroyed.
C17_CloseAllClosesOpen ==
  [][CloseAll /\ thrown' = "none" =>
       \A n \in Ids :
         IsOpenState(inst[n]) =>
           inst'[n].isClosing \/ inst'[n].destroyed > 0]_vars

\* C13: the lifecycle only moves forward: an open instance stays opened, a
\* closing instance stays closing, closing is entered only by an open
\* instance that was never destroyed, and destroy runs at most once.
C13_LifecycleMonotonic ==
  [][\A n \in Ids :
       /\ inst[n].isOpen => inst'[n].isOpen
       /\ inst[n].isClosing => inst'[n].isClosing
       /\ inst'[n].isClosing /\ ~inst[n].isClosing =>
            inst[n].isOpen /\ inst[n].destroyCalls = 0
       /\ inst'[n].destroyCalls <= 1]_vars

\* C15: update(id, {text: X}) on a registered instance makes the rendered
\* text X, whatever its other options, and leaves isOpen, isClosing, the
\* timer, the promise and the registry unchanged.
C15_UpdateTextRoundTrip ==
  [][\A id \in LookupIds, o \in UpdateOptions :
       Update(id, o) /\ id \in Range(notifications) =>
         /\ inst'[id].renderedText = o.text
         /\ inst'[id].isOpen = inst[id].isOpen
         /\ inst'[id].isClosing = inst[id].isClosing
         /\ inst'[id].timer = inst[id].timer
         /\ inst'[id].promise = inst[id].promise
         /\ notifications' = notifications]_vars

\* C16: update(id, options) with an id that is not a key of the registry
\* changes nothing and throws nothing; getNotification(id) with such an id
\* returns the empty result (undefined) and throws nothing. Ids never issued
\* and ids of destroyed instances alike.
C16_UnknownIdIsNoOp ==
  [][\A id \in LookupIds :
       id \notin Range(notifications) =>
         /\ \A o \in UpdateOptions :
              Update(id, o) =>
                /\ thrown' = "none"
                /\ UNCHANGED <<notifications, inst, queue, isProcessing, jobs>>
         /\ GetNotification(id) =>
              /\ thrown' = "none"
              /\ returned' = "undefined"
              /\ UNCHANGED <<notifications, inst, queue, isProcessing, jobs>>]_vars

\* a lookup returned the empty result while one instance was destroyed and
\* another one registered
C16_Witness ==
  /\ returned = "undefined"
  /\ notifications # <<>>
  /\ \E n \in Ids : inst[n].destroyed > 0

\* C18: whatever the options argument, the instance a wrapper creates has
\* the wrapper's type; one created by question shows the cancel button; one
\* created by loading shows no confirm button and allows neither outside
\* click nor Escape.
C18_WrappersAreFixedPresets ==
  [][\A w \in Wrappers, i \in DOMAIN WrapperOptions :
       Preset(w, WrapperOptions[i], MaxIds) =>
         LET o == inst'[Len(inst')].options
         IN  /\ o.type = w
             /\ w = "question" => o.showCancelButton
             /\ w = "loading" =>
                  /\ ~o.showConfirmButton
                  /\ ~o.allowOutsideClick
                  /\ ~o.allowEscapeKey]_vars

\* C19: no user interaction (close button, action button, Escape, backdrop
\* click) drives an instance created by loading(title, text) into closing.
C19_LoadingNotDismissable ==
  [][\A n \in Ids :
       /\ inst[n].options = loading(St, "D", "T", <<>>).inst[Len(inst) + 1].options
       /\ ~inst[n].isClosing
       /\ \/ ClickClose(n)
          \/ ClickConfirm(n)
          \/ ClickDeny(n)
          \/ EscapeKey
          \/ BackdropClick
       => ~inst'[n].isClosing]_vars

\* C20: an Escape key press drives into closing only an instance whose
\* options allow Escape, and a backdrop click only one whose options allow
\* outside click, whatever the other instances of the registry allow.
C20_PermissionsRespected ==
  [][\A n \in Ids :
       ~inst[n].isClosing /\ inst'[n].isClosing =>
         /\ EscapeKey => inst[n].options.allowEscapeKey
         /\ BackdropClick => inst[n].options.allowOutsideClick]_vars

\* an instance that refuses Escape is on top and open, above an instance
\* that allows Escape and was closed
C20_Witness ==
  \E n, m \in Ids :
    /\ getTopNotification(St) = n
    /\ ~inst[n].options.allowEscapeKey
    /\ IsOpenState(inst[n])
    /\ m < n
    /\ inst[m].options.allowEscapeKey
    /\ ~inst[m].options.allowOutsideClick
    /\ inst[m].isClosing

\* C21: the toasts map never holds more than maxToasts entries.
C21_ToastRegistryBounded == Len(toasts) <= maxToasts

\* C29: close() on a toast that is already closing arms no further destroy
\* timeout, and a show() that overflows the map drives a toast that was
\* still showing into closing.
C29_ToastCloseIdempotent ==
  [][/\ \A n \in ToastIds :
          toast[n].hidden => toast'[n].destroyTimers <= toast[n].destroyTimers
     /\ Len(toast') > Len(toast) /\ Len(toasts') > maxToasts =>
          \E n \in ToastIds : ~toast[n].hidden /\ toast'[n].hidden]_vars

\* C22: a toast shown with a positive duration is eventually out of the
\* toasts map; a toast shown with duration 0 never has a timer armed and is
\* in the map for as long as close() was not called on it.
C22_ToastAutoClose ==
  /\ \A n \in 1 .. MaxToastIds :
       (n \in ToastIds /\ toast[n].options.duration > 0)
         ~> (n \in ToastIds /\ n \notin Range(toasts))
  /\ [](\A n \in ToastIds :
         toast[n].options.duration = 0 =>
           /\ ~toast[n].timer
           /\ ~toast[n].hidden => n \in Range(toasts))

\* a toast with a duration is gone from the map while a toast of duration 0,
\* shown before it, is still showing
C22_Witness ==
  \E n, m \in ToastIds :
    /\ m < n
    /\ toast[n].options.duration > 0
    /\ toast[n].destroyed = 1
    /\ n \notin Range(toasts)
    /\ toast[m].options.duration = 0
    /\ ~toast[m].hidden
    /\ m \in Range(toasts)

\* C23: a direct fire call constructs its instance, opens it and inserts it
\* into the registry in the same turn, whether or not the drain loop is
\* processing, and changes neither isProcessing nor the pending sequence.
C23_DirectFireNotThrottled ==
  [][\A r \in DirectRequests :
       Fire(r, MaxQueueIds) =>
         LET id == Len(inst) + 1
         IN  /\ Len(inst') = id
             /\ inst'[id].isOpen
             /\ id \in Range(notifications')
             /\ thrown' = "none"
             /\ isProcessing' = isProcessing
             /\ queue' = queue]_vars

\* a directly fired instance is open while the drain loop is processing an
\* earlier, unsettled queue-admitted instance and a request is pending
C23_Witness ==
  /\ isProcessing
  /\ queue # <<>>
  /\ Admitted # <<>>
  /\ inst[Admitted[Len(Admitted)]].promise.state = "pending"
  /\ \E n \in Ids :
       /\ n > Admitted[Len(Admitted)]
       /\ inst[n].options.title = "D"
       /\ IsOpenState(inst[n])
       /\ n \in Range(notifications)

\* C24: fire with the container missing throws nothing; its instance is
\* open, is registered until destroyed, and its promise is settled once it
\* is closing.
C24_MissingContainerTolerated ==
  /\ thrown = "none"
  /\ \A n \in Ids :
       ~inst[n].connected =>
         /\ inst[n].isOpen
         /\ inst[n].destroyed = 0 => n \in Range(notifications)
         /\ inst[n].isClosing => inst[n].promise.state # "pending"

\* C25: the drain loop never stalls: it is not the case that requests are
\* pending while the loop is processing an instance that is destroyed with
\* its promise unsettled.
C25_QueueNeverStalls ==
  ~ /\ queue # <<>>
    /\ isProcessing
    /\ jobs = <<>>
    /\ Admitted # <<>>
    /\ inst[Admitted[Len(Admitted)]].destroyed > 0
    /\ inst[Admitted[Len(Admitted)]].promise.state = "pending"

\* C26: at the end of a turn of the drain loop, a non-empty pending
\* sequence means isProcessing, and isProcessing means exactly one request
\* was passed to fire whose continuation has not run.
C26_DrainLoopInvariant ==
  [][ProcessQueue \/ RunDrain =>
       /\ queue' # <<>> => isProcessing'
       /\ isProcessing' => Cardinality(InFlight') = 1]_vars

\* after a continuation ran, the second request is in flight and a third
\* one is pending
C26_Witness ==
  /\ isProcessing
  /\ queue # <<>>
  /\ jobs = <<>>
  /\ Len(Admitted) = 2
  /\ inst[Admitted[1]].promise.state = "fulfilled"
  /\ InFlight = {Admitted[2]}

\* C27: an Escape key press or a backdrop click drives no instance into
\* closing other than the last entry of the registry.
C27_OnlyTopmostActedOn ==
  [][EscapeKey \/ BackdropClick =>
       \A n \in Ids :
         ~inst[n].isClosing /\ inst'[n].isClosing =>
           n = notifications[Len(notifications)]]_vars

\* the last entry is closing, or refuses both interactions, above an older
\* entry that is open and allows both
C27_Witness ==
  /\ Len(notifications) >= 2
  /\ LET top == notifications[Len(notifications)]
     IN  /\ \/ inst[top].isClosing
            \/ ~inst[top].options.allowEscapeKey /\ ~inst[top].options.allowOutsideClick
         /\ \E m \in Range(notifications) :
              /\ m < top
              /\ IsOpenState(inst[m])
              /\ inst[m].options.allowEscapeKey
              /\ inst[m].options.allowOutsideClick
         /\ \E k \in Ids : inst[k].destroyed > 0

\* C28: an instance that is closing with its promise unsettled (it entered
\* closing by a passive trigger) keeps its promise unsettled and has no
\* preConfirm / preDeny started, whatever arrives on it.
C28_NoActionAfterPassiveClose ==
  [][\A n \in Ids :
       inst[n].isClosing /\ inst[n].promise.state = "pending" =>
         /\ inst'[n].promise.state = "pending"
         /\ inst'[n].pendingConfirm = inst[n].pendingConfirm
         /\ inst'[n].pendingDeny = inst[n].pendingDeny]_vars

\* C30: once no close timeout of a modal is pending, the modal is open and
\* displayed if the last call on it was open(), and closed if it was close().
C30_LastActionWins ==
  \A m \in ModalIds :
    modals[m].closeTimers = 0 =>
      /\ modals[m].lastCall = "open" =>
           modals[m].isOpen /\ modals[m].display = "flex"
      /\ modals[m].lastCall = "close" =>
           ~modals[m].isOpen /\ modals[m].display = "none"

====
